---- MODULE Spec2Model ----
(***************************************************************************)
(* Fred2.IO.FileReader.read_annovar_exonic: the ANNOVAR exonic-annotation  *)
(* reader.  Text is modelled as sequences of one-character strings, so     *)
(* that splitting, stripping, case conversion and the extraction pattern   *)
(* are computed character by character as Python computes them.            *)
(***************************************************************************)
EXTENDS Integers, Sequences, FiniteSets, TLC

(***************************************************************************)
(* Python str primitives used by the reader.                               *)
(***************************************************************************)
UpperChars ==
    <<"A", "B", "C", "D", "E", "F", "G", "H", "I", "J", "K", "L", "M",
      "N", "O", "P", "Q", "R", "S", "T", "U", "V", "W", "X", "Y", "Z">>

LowerChars ==
    <<"a", "b", "c", "d", "e", "f", "g", "h", "i", "j", "k", "l", "m",
      "n", "o", "p", "q", "r", "s", "t", "u", "v", "w", "x", "y", "z">>

DigitChars == <<"0", "1", "2", "3", "4", "5", "6", "7", "8", "9">>

Range(f) == {f[x] : x \in DOMAIN f}

IndexIn(c, chars) == CHOOSE k \in DOMAIN chars : chars[k] = c

IsSpace(c) == c \in {" ", "\t", "\n", "\r"}

IsDigit(c) == c \in Range(DigitChars)

IsWord(c) == c \in Range(UpperChars) \cup Range(LowerChars) \cup Range(DigitChars) \cup {"_"}

LowerChar(c) == IF c \in Range(UpperChars) THEN LowerChars[IndexIn(c, UpperChars)] ELSE c

UpperChar(c) == IF c \in Range(LowerChars) THEN UpperChars[IndexIn(c, LowerChars)] ELSE c

\* str.lower()
Lower(s) == [k \in 1..Len(s) |-> LowerChar(s[k])]

\* str.upper()
Upper(s) == [k \in 1..Len(s) |-> UpperChar(s[k])]

\* s[a-1:b-1] of Python, with 1-based a and exclusive 1-based end b
Slice(s, a, b) == [k \in 1..(b - a) |-> s[a + k - 1]]

\* str.strip(): whitespace removed at both ends
Strip(s) ==
    LET keep == {k \in 1..Len(s) : ~IsSpace(s[k])}
    IN  IF keep = {} THEN <<>>
        ELSE LET lo == CHOOSE k \in keep : \A j \in keep : k <= j
                 hi == CHOOSE k \in keep : \A j \in keep : k >= j
             IN  Slice(s, lo, hi + 1)

\* str.split(sep) for a one-character separator: empty pieces are kept
RECURSIVE SplitOn(_, _)
SplitOn(s, sep) ==
    LET at == {k \in 1..Len(s) : s[k] = sep}
    IN  IF at = {} THEN <<s>>
        ELSE LET k == CHOOSE x \in at : \A y \in at : x <= y
             IN  <<Slice(s, 1, k)>> \o SplitOn(Slice(s, k + 1, Len(s) + 1), sep)

\* str.split() without argument: runs of whitespace separate, no empty piece
RECURSIVE SplitWs(_)
SplitWs(s) ==
    LET t == Strip(s)
        sp == {k \in 1..Len(t) : IsSpace(t[k])}
    IN  IF t = <<>> THEN <<>>
        ELSE IF sp = {} THEN <<t>>
        ELSE LET k == CHOOSE x \in sp : \A y \in sp : x <= y
             IN  <<Slice(t, 1, k)>> \o SplitWs(Slice(t, k + 1, Len(t) + 1))

\* the slice [:n] of a list
Take(seq, n) == IF Len(seq) <= n THEN seq ELSE SubSeq(seq, 1, n)

\* int() of a text: an optional sign and decimal digits, else ValueError
IsIntText(s) ==
    LET body == IF Len(s) > 0 /\ s[1] \in {"-", "+"} THEN Tail(s) ELSE s
    IN  Len(body) > 0 /\ \A k \in 1..Len(body) : IsDigit(body[k])

RECURSIVE DigitsValue(_)
DigitsValue(s) ==
    IF s = <<>> THEN 0
    ELSE 10 * DigitsValue(SubSeq(s, 1, Len(s) - 1)) + (IndexIn(s[Len(s)], DigitChars) - 1)

IntOf(s) ==
    IF s[1] = "-" THEN 0 - DigitsValue(Tail(s))
    ELSE IF s[1] = "+" THEN DigitsValue(Tail(s))
    ELSE DigitsValue(s)

\* The extraction pattern RE, one element per pattern item of
\*   ((\w+):(\w+):exon\d+:c.\D*(\d+)\D\w*:p.\D*(\d+)\D\w*)
\* cls is a character class or a literal character, min the least number of
\* repetitions, many whether the item repeats (greedily).
Item(cls, min, many) == [cls |-> cls, min |-> min, many |-> many]

Lit(c) == Item(c, 1, FALSE)

RE ==
    << Item("\\w", 1, TRUE), Lit(":"), Item("\\w", 1, TRUE),
       Lit(":"), Lit("e"), Lit("x"), Lit("o"), Lit("n"), Item("\\d", 1, TRUE),
       Lit(":"), Lit("c"), Item(".", 1, FALSE), Item("\\D", 0, TRUE),
       Item("\\d", 1, TRUE), Item("\\D", 1, FALSE), Item("\\w", 0, TRUE),
       Lit(":"), Lit("p"), Item(".", 1, FALSE), Item("\\D", 0, TRUE),
       Item("\\d", 1, TRUE), Item("\\D", 1, FALSE), Item("\\w", 0, TRUE) >>

\* positions of the pattern items that close a capture group
GeneItem == 1
NmItem == 3
TransPosItem == 14
ProtPosItem == 21

InClass(c, cls) ==
    CASE cls = "\\w" -> IsWord(c)
      [] cls = "\\d" -> IsDigit(c)
      [] cls = "\\D" -> ~IsDigit(c)
      [] cls = "."   -> c # "\n"
      [] OTHER       -> c = cls

\* number of consecutive characters of class cls from position pos on
RECURSIVE RunLen(_, _, _)
RunLen(s, pos, cls) ==
    IF pos <= Len(s) /\ InClass(s[pos], cls) THEN 1 + RunLen(s, pos + 1, cls) ELSE 0

NoMatch == [ok |-> FALSE, ends |-> <<>>]

\* Backtracking match of the items k.. at position pos.  A greedy item first
\* takes its longest run and gives characters back one at a time until the rest
\* of the pattern matches.  ends[j] is the position after item k+j-1.
RECURSIVE MatchFrom(_, _, _), TryLen(_, _, _, _)
MatchFrom(s, k, pos) ==
    IF k > Len(RE) THEN [ok |-> TRUE, ends |-> <<>>]
    ELSE LET run == RunLen(s, pos, RE[k].cls)
         IN  TryLen(s, k, pos, IF RE[k].many \/ run = 0 THEN run ELSE 1)

TryLen(s, k, pos, n) ==
    IF n < RE[k].min THEN NoMatch
    ELSE LET r == MatchFrom(s, k + 1, pos + n)
         IN  IF r.ok THEN [ok |-> TRUE, ends |-> <<pos + n>> \o r.ends]
             ELSE TryLen(s, k, pos, n - 1)

\* the groups of one match that starts at position start
Groups(s, start, ends) ==
    << Slice(s, start, ends[Len(RE)]),
       Slice(s, start, ends[GeneItem]),
       Slice(s, ends[NmItem - 1], ends[NmItem]),
       Slice(s, ends[TransPosItem - 1], ends[TransPosItem]),
       Slice(s, ends[ProtPosItem - 1], ends[ProtPosItem]) >>

\* RE.findall(s): the leftmost non-overlapping matches, scanning from start
RECURSIVE FindAllFrom(_, _)
FindAllFrom(s, start) ==
    IF start > Len(s) THEN <<>>
    ELSE LET m == MatchFrom(s, 1, start)
         IN  IF m.ok THEN <<Groups(s, start, m.ends)>> \o FindAllFrom(s, m.ends[Len(RE)])
             ELSE FindAllFrom(s, start + 1)

FindAll(s) == FindAllFrom(s, 1)

(***************************************************************************)
(* Words of the reader: classifier tokens, "hom", the UNKNOWN sentinel.      *)
(***************************************************************************)
Synonymous == <<"s", "y", "n", "o", "n", "y", "m", "o", "u", "s">>

Nonsynonymous == <<"n", "o", "n", "s", "y", "n", "o", "n", "y", "m", "o", "u", "s">>

Stoploss == <<"s", "t", "o", "p", "l", "o", "s", "s">>

Stopgain == <<"s", "t", "o", "p", "g", "a", "i", "n">>

Nonframeshift == <<"n", "o", "n", "f", "r", "a", "m", "e", "s", "h", "i", "f", "t">>

Frameshift == <<"f", "r", "a", "m", "e", "s", "h", "i", "f", "t">>

Snv == <<"s", "n", "v">>

Deletion == <<"d", "e", "l", "e", "t", "i", "o", "n">>

Insertion == <<"i", "n", "s", "e", "r", "t", "i", "o", "n">>

Hom == <<"h", "o", "m">>

UnknownGene == <<"U", "N", "K", "N", "O", "W", "N">>

(***************************************************************************)
(* read_annovar_exonic: the pure steps of the loop body.                   *)
(***************************************************************************)

\* type_mapper: the classifier table, keyed by the whole token tuple
type_mapper ==
    { <<<<Synonymous, Snv>>, "SNP">>,
      <<<<Nonsynonymous, Snv>>, "SNP">>,
      <<<<Stoploss, Snv>>, "SNP">>,
      <<<<Stopgain, Snv>>, "SNP">>,
      <<<<Nonframeshift, Deletion>>, "DEL">>,
      <<<<Frameshift, Deletion>>, "FSDEL">>,
      <<<<Nonframeshift, Insertion>>, "INS">>,
      <<<<Frameshift, Insertion>>, "FSINS">> }

\* a lookup that reads only the first two tokens of the type text
TypeMapperGetFirstTwo(ty) ==
    IF \E e \in type_mapper : e[1] = Take(ty, 2)
    THEN (CHOOSE e \in type_mapper : e[1] = Take(ty, 2))[2]
    ELSE "UNKNOWN"

\* type_mapper.get(ty, VariationType.UNKNOWN)
TypeMapperGet(ty) ==
    IF \E e \in type_mapper : e[1] = ty
    THEN (CHOOSE e \in type_mapper : e[1] = ty)[2]
    ELSE "UNKNOWN"

\* map(lambda x: x.strip().lower(), line.split("\t")[:9])
Fields(raw) ==
    LET t == Take(SplitOn(raw, "\t"), 9)
    IN  [k \in 1..Len(t) |-> Lower(Strip(t[k]))]

\* the nine-name unpack of the fields raises ValueError on any other count
UnpackFails(fields) == Len(fields) # 9

\* gene = line.split(":")[0].strip().upper()
Gene(fields) == Upper(Strip(SplitOn(fields[3], ":")[1]))

InList(x, list) == \E k \in 1..Len(list) : list[k] = x

\* a filter that tests the sentinel before the allow-list
FilteredOutAfterSentinel(gene, filter) ==
    gene # UnknownGene /\ ~InList(gene, filter) /\ Len(filter) # 0

\* gene not in gene_filter and len(gene_filter)
FilteredOut(gene, filter) == ~InList(gene, filter) /\ Len(filter) # 0

\* gene == "UNKNOWN"
IsUnknownGene(gene) == gene = UnknownGene

\* MutationSyntax(nm_id, trans_pos, prot_start, trans_coding, prot_coding, geneID)
MutationSyntax(nm_id, trans_pos, prot_start, trans_coding, prot_coding, geneID) ==
    [ transcriptId |-> nm_id, transcriptPosition |-> trans_pos,
      proteinStartPosition |-> prot_start, codingDnaString |-> trans_coding,
      proteinString |-> prot_coding, geneId |-> geneID ]

\* the five-name unpack of mutation_string.split(":") raises ValueError on any
\* other count
SplitFails(nm_id_pos) == Len(SplitOn(nm_id_pos[1], ":")) # 5

\* lines 163-167: the MutationSyntax built from one match, positions zero-based
Entry(nm_id_pos) ==
    LET parts == SplitOn(nm_id_pos[1], ":")
    IN  MutationSyntax(Upper(nm_id_pos[3]), IntOf(nm_id_pos[4]) - 1,
                       IntOf(nm_id_pos[5]) - 1, parts[4], parts[5], Upper(nm_id_pos[2]))

\* an assignment that keeps the entry a key already has
StoreFirstWins(coding, key, entry) ==
    [k \in DOMAIN coding \cup {key} |-> IF k \in DOMAIN coding THEN coding[k] ELSE entry]

\* coding[nm_id] = ...
Store(coding, key, entry) ==
    [k \in DOMAIN coding \cup {key} |-> IF k = key THEN entry ELSE coding[k]]

EmptyDict == [k \in {} |-> k]

\* the loop over RE.findall(line), from match j on: the dict, or the failure of
\* the first match whose re-split does not unpack
RECURSIVE CodingFrom(_, _, _)
CodingFrom(matches, j, coding) ==
    IF j > Len(matches) THEN [ok |-> TRUE, coding |-> coding]
    ELSE IF SplitFails(matches[j]) THEN [ok |-> FALSE, coding |-> coding]
    ELSE CodingFrom(matches, j + 1,
                    Store(coding, Upper(matches[j][3]), Entry(matches[j])))

Coding(fields) == CodingFrom(FindAll(fields[3]), 1, EmptyDict)

\* ty = tuple(mut_type.split())
Ty(fields) == SplitWs(fields[2])

\* a first token that is read without an index error
FirstTokenOrEmpty(ty) ==
    [raises |-> FALSE, value |-> IF Len(ty) = 0 THEN <<>> ELSE ty[1]]

\* ty[0]: IndexError on the empty tuple
FirstToken(ty) ==
    [raises |-> Len(ty) = 0, value |-> IF Len(ty) = 0 THEN <<>> ELSE ty[1]]

\* Variant(mut_id, type, chrom, int(genome_start), ref.upper(), alt.upper(),
\*         coding, zygos == "hom", ty[0] == "synonymous", experimentalDesign=...)
Variant(fields, ty, coding, design) ==
    [ id |-> fields[1],
      type |-> TypeMapperGet(ty),
      chrom |-> fields[4],
      genomicStart |-> IntOf(fields[5]),
      ref |-> Upper(fields[7]),
      alt |-> Upper(fields[8]),
      coding |-> coding,
      isHomozygous |-> (fields[9] = Hom),
      isSynonymous |-> (FirstToken(ty).value = Synonymous),
      experimentalDesign |-> design ]

\* Field texts as they stand in a file
TypeNonsynSnv ==
    <<"n", "o", "n", "s", "y", "n", "o", "n", "y", "m", "o", "u", "s", " ", "S",
      "N", "V">>

TypeSynSnv ==
    <<"s", "y", "n", "o", "n", "y", "m", "o", "u", "s", " ", "S", "N", "V">>

TypeStoplossSnv == <<"s", "t", "o", "p", "l", "o", "s", "s", " ", "S", "N", "V">>

TypeStopgainSnv == <<"s", "t", "o", "p", "g", "a", "i", "n", " ", "S", "N", "V">>

TypeNonframeDel ==
    <<"n", "o", "n", "f", "r", "a", "m", "e", "s", "h", "i", "f", "t", " ", "d",
      "e", "l", "e", "t", "i", "o", "n">>

TypeFrameDel ==
    <<"f", "r", "a", "m", "e", "s", "h", "i", "f", "t", " ", "d", "e", "l", "e",
      "t", "i", "o", "n">>

TypeNonframeIns ==
    <<"n", "o", "n", "f", "r", "a", "m", "e", "s", "h", "i", "f", "t", " ", "i",
      "n", "s", "e", "r", "t", "i", "o", "n">>

TypeFrameIns ==
    <<"f", "r", "a", "m", "e", "s", "h", "i", "f", "t", " ", " ", "i", "n", "s",
      "e", "r", "t", "i", "o", "n">>

TypeThreeTokens ==
    <<"n", "o", "n", "s", "y", "n", "o", "n", "y", "m", "o", "u", "s", " ", "S",
      "N", "V", " ", "x">>

TypeOneToken == <<"s", "t", "o", "p", "g", "a", "i", "n">>

TypeNoToken == <<" ">>

TypeOtherPair ==
    <<"f", "r", "a", "m", "e", "s", "h", "i", "f", "t", " ", "S", "N", "V">>

AnnEgfr ==
    <<"E", "G", "F", "R", ":", "N", "M", "_", "1", ":", "e", "x", "o", "n", "1",
      ":", "c", ".", "G", "3", "5", "A", ":", "p", ".", "G", "1", "2", "D">>

AnnBrca1Twice ==
    <<"B", "r", "c", "a", "1", ":", "n", "m", "_", "2", ":", "e", "x", "o", "n",
      "2", ":", "c", ".", "a", "0", "b", ":", "p", ".", "c", "7", "d", ",", "b",
      "r", "c", "a", "1", ":", "N", "M", "_", "2", ":", "e", "x", "o", "n", "3",
      ":", "c", ".", "a", "5", "b", ":", "p", ".", "c", "0", "d">>

AnnColonInRun ==
    <<"g", ":", "n", "m", "_", "1", ":", "e", "x", "o", "n", "1", ":", "c", ".",
      "a", ":", "b", "1", "2", "c", ":", "p", ".", "d", "3", "e">>

AnnAcrossComma ==
    <<"e", "g", "f", "r", ":", "n", ":", "e", "x", "o", "n", "1", ":", "c", ".",
      "a", "1", "b", ":", "p", ".", "x", ",", "h", ":", "m", ":", "e", "x", "o",
      "n", "2", ":", "c", ".", "c", "2", "d", ":", "p", ".", "e", "3", "f">>

AnnUnknownGene ==
    <<"U", "n", "k", "n", "o", "w", "n", ":", "n", "m", "_", "3", ":", "e", "x",
      "o", "n", "1", ":", "c", ".", "a", "1", "b", ":", "p", ".", "c", "2", "d">>

AnnNoMatch == <<"T", "P", "5", "3", ":", "n", "m", "_", "4">>

AnnBrca1Two ==
    <<"b", "r", "c", "a", "1", " ", ":", "N", "M", "_", "5", ":", "e", "x", "o",
      "n", "1", ":", "c", ".", "t", "7", "c", ":", "p", ".", "l", "3", "p", ",",
      "b", "r", "c", "a", "1", ":", "n", "m", "_", "6", ":", "e", "x", "o", "n",
      "1", ":", "c", ".", "t", "9", "c", ":", "p", ".", "l", "4", "p">>

MutId == <<"M", "u", "t", "1">>

Chrom == <<"C", "h", "r", "7">>

Start100 == <<" ", "1", "0", "0">>

StartBad == <<"1", "e", "2">>

Stop == <<"1", "0", "0">>

Ref == <<"g">>

Alt == <<"A", "t">>

Het == <<"h", "e", "t">>

HomRaw == <<"H", "O", "M">>

Brca1 == <<"B", "R", "C", "A", "1">>

Egfr == <<"E", "G", "F", "R">>

(***************************************************************************)
(* Input files.  A line is the raw text of the file, tabs and newline      *)
(* included.                                                               *)
(***************************************************************************)
RECURSIVE JoinTab(_)
JoinTab(fs) ==
    IF Len(fs) = 1 THEN fs[1] ELSE fs[1] \o <<"\t">> \o JoinTab(Tail(fs))

RawLine(type, ann, start, zygos) ==
    JoinTab(<<MutId, type, ann, Chrom, start, Stop, Ref, Alt, zygos>>) \o <<"\n">>

Lines ==
    \* 1: table pair, one match
    << RawLine(TypeNonsynSnv, AnnEgfr, Start100, Het),
    \* 2: table pair, two matches of one transcript id, a captured 0
       RawLine(TypeSynSnv, AnnBrca1Twice, Start100, HomRaw),
    \* 3: table pair, no match
       RawLine(TypeStoplossSnv, AnnNoMatch, Start100, Het),
    \* 4: table pair, gene followed by a blank, one match
       RawLine(TypeStopgainSnv, AnnBrca1Two, Start100, Het),
    \* 5: table pair
       RawLine(TypeNonframeDel, AnnEgfr, Start100, HomRaw),
    \* 6: table pair
       RawLine(TypeFrameDel, AnnBrca1Twice, Start100, Het),
    \* 7: table pair
       RawLine(TypeNonframeIns, AnnNoMatch, Start100, Het),
    \* 8: table pair, two blanks between the tokens
       RawLine(TypeFrameIns, AnnEgfr, Start100, Het),
    \* 9: three tokens
       RawLine(TypeThreeTokens, AnnEgfr, Start100, Het),
    \* 10: one token
       RawLine(TypeOneToken, AnnBrca1Twice, Start100, Het),
    \* 11: no token
       RawLine(TypeNoToken, AnnEgfr, Start100, Het),
    \* 12: two tokens, no table pair
       RawLine(TypeOtherPair, AnnNoMatch, Start100, Het),
    \* 13: UNKNOWN gene
       RawLine(TypeNonsynSnv, AnnUnknownGene, Start100, Het),
    \* 14: a colon inside a non-digit run
       RawLine(TypeNonsynSnv, AnnColonInRun, Start100, Het),
    \* 15: a match across the comma
       RawLine(TypeOneToken, AnnAcrossComma, Start100, Het),
    \* 16: genomic start no integer
       RawLine(TypeNonsynSnv, AnnEgfr, StartBad, Het),
    \* 17: ten fields
       RawLine(TypeNonsynSnv, AnnEgfr, Start100, Het \o <<"\t">> \o Het),
    \* 18: five fields
       JoinTab(<<MutId, TypeNonsynSnv, AnnNoMatch, Chrom, Start100>>) \o <<"\n">>,
    \* 19: blank line
       <<"\n">> >>

\* What the loop body computes from each line of Lines alone, worked out once:
\* the stripped, lowercased fields and, for a line of nine fields, the gene, the
\* outcome of the extraction loop and the type tokens.
RECURSIVE FieldsUpTo(_)
FieldsUpTo(n) ==
    IF n = 0 THEN <<>> ELSE Append(FieldsUpTo(n - 1), Fields(Lines[n]))

FieldsTable == FieldsUpTo(Len(Lines))

RECURSIVE CodingUpTo(_)
CodingUpTo(n) ==
    IF n = 0 THEN <<>>
    ELSE Append(CodingUpTo(n - 1),
                IF UnpackFails(FieldsTable[n]) THEN [ok |-> FALSE, coding |-> EmptyDict]
                ELSE Coding(FieldsTable[n]))

CodingTable == CodingUpTo(Len(Lines))

RECURSIVE GeneUpTo(_)
GeneUpTo(n) ==
    IF n = 0 THEN <<>>
    ELSE Append(GeneUpTo(n - 1),
                IF UnpackFails(FieldsTable[n]) THEN <<>> ELSE Gene(FieldsTable[n]))

GeneTable == GeneUpTo(Len(Lines))

RECURSIVE TyUpTo(_)
TyUpTo(n) ==
    IF n = 0 THEN <<>>
    ELSE Append(TyUpTo(n - 1),
                IF UnpackFails(FieldsTable[n]) THEN <<>> ELSE Ty(FieldsTable[n]))

TyTable == TyUpTo(Len(Lines))

RECURSIVE MatchesUpTo(_)
MatchesUpTo(n) ==
    IF n = 0 THEN <<>>
    ELSE Append(MatchesUpTo(n - 1),
                IF UnpackFails(FieldsTable[n]) THEN <<>> ELSE FindAll(FieldsTable[n][3]))

\* RE.findall(line) of each line of Lines
MatchesTable == MatchesUpTo(Len(Lines))

\* the longest file, in lines
MaxLines == 2

\* A file is the sequence of its lines, each given by its number in Lines; a
\* path may also name no readable file.
Files ==
    {[readable |-> TRUE, lines |-> ls] :
        ls \in UNION {[1..n -> 1..Len(Lines)] : n \in 0..MaxLines}}
    \cup {[readable |-> FALSE, lines |-> <<>>]}

\* gene_filter arguments: None, and lists of gene names
None == <<"None">>

GeneFilters == {None, <<>>, <<Brca1>>, <<Egfr, UnknownGene>>}

\* experimentalDesig arguments: None, and a design name
ExperimentalDesigns == {"None", "tumour"}

(***************************************************************************)
(* State of one call of read_annovar_exonic.                               *)
(***************************************************************************)
VARIABLES
    annovar_file,       \* the file at the path: readable or not, and its lines
    gene_filter_arg,    \* the gene_filter argument
    experimentalDesig,  \* the experimentalDesig argument
    pc,                 \* "call", "loop", "returned", "raised"
    gene_filter,        \* the local gene_filter
    vars,               \* the local list vars
    lineno,             \* number of lines the for loop has taken from f
    fileOpen,           \* whether f is open
    warns,              \* warnings.warn calls: the line number of each
    err,                \* the exception that left the function: type, source line
    result,             \* the list the caller receives
    src                 \* the line number each element of vars was built from

state == <<annovar_file, gene_filter_arg, experimentalDesig, pc, gene_filter, vars,
           lineno, fileOpen, warns, err, result, src>>

NoError == [type |-> "none", at |-> 0]

Init ==
    /\ annovar_file \in Files
    /\ gene_filter_arg \in GeneFilters
    /\ experimentalDesig \in ExperimentalDesigns
    /\ pc = "call"
    /\ gene_filter = <<>>
    /\ vars = <<>>
    /\ lineno = 0
    /\ fileOpen = FALSE
    /\ warns = <<>>
    /\ err = NoError
    /\ result = <<>>
    /\ src = <<>>

\* an exception that leaves f open
RaiseLeavingOpen(type, at) ==
    /\ pc' = "raised"
    /\ err' = [type |-> type, at |-> at]
    /\ fileOpen' = fileOpen
    /\ result' = <<>>

\* an exception that hands the caller the list built so far
RaiseKeepingVars(type, at) ==
    /\ pc' = "raised"
    /\ err' = [type |-> type, at |-> at]
    /\ fileOpen' = FALSE
    /\ result' = vars

\* An exception raised at source line `at` propagates out of the function; the
\* with statement closes f on the way; the caller receives no list.
Raise(type, at) ==
    /\ pc' = "raised"
    /\ err' = [type |-> type, at |-> at]
    /\ fileOpen' = FALSE
    /\ result' = <<>>

\* vars.append at the front
Prepend(list, v) == <<v>> \o list

\* vars.append(v)
AppendVar(list, v) == Append(list, v)

\* lines 124-139: the locals, and open() of a readable file
Enter ==
    /\ pc = "call"
    /\ annovar_file.readable
    /\ gene_filter' = IF gene_filter_arg # None THEN gene_filter_arg ELSE <<>>
    /\ vars' = <<>>
    /\ fileOpen' = TRUE
    /\ pc' = "loop"
    /\ UNCHANGED <<annovar_file, gene_filter_arg, experimentalDesig, lineno, warns,
                   err, result, src>>

\* line 139: open() of a missing file raises IOError
EnterMissing ==
    /\ pc = "call"
    /\ ~annovar_file.readable
    /\ gene_filter' = IF gene_filter_arg # None THEN gene_filter_arg ELSE <<>>
    /\ vars' = <<>>
    /\ Raise("IOError", 139)
    /\ UNCHANGED <<annovar_file, gene_filter_arg, experimentalDesig, lineno, warns, src>>

HasLine == pc = "loop" /\ lineno < Len(annovar_file.lines)

\* the line the for loop takes next, as its number in Lines
NextLine == annovar_file.lines[lineno + 1]

NextFields == FieldsTable[NextLine]

NextCoding == CodingTable[NextLine]

NextGene == GeneTable[NextLine]

NextTy == TyTable[NextLine]

\* line 141: a line of fewer than nine fields does not unpack
ShortLine ==
    /\ HasLine
    /\ UnpackFails(NextFields)
    /\ lineno' = lineno + 1
    /\ Raise("ValueError", 141)
    /\ UNCHANGED <<annovar_file, gene_filter_arg, experimentalDesig, gene_filter, vars,
                   warns, src>>

\* lines 149-150: the gene is not in the non-empty filter
FilterSkip ==
    /\ HasLine
    /\ ~UnpackFails(NextFields)
    /\ FilteredOut(NextGene, gene_filter)
    /\ lineno' = lineno + 1
    /\ UNCHANGED <<annovar_file, gene_filter_arg, experimentalDesig, pc, gene_filter,
                   vars, fileOpen, warns, err, result, src>>

\* lines 152-154: the UNKNOWN gene is skipped with a warning
UnknownSkip ==
    /\ HasLine
    /\ ~UnpackFails(NextFields)
    /\ ~FilteredOut(NextGene, gene_filter)
    /\ IsUnknownGene(NextGene)
    /\ warns' = Append(warns, lineno + 1)
    /\ lineno' = lineno + 1
    /\ UNCHANGED <<annovar_file, gene_filter_arg, experimentalDesig, pc, gene_filter,
                   vars, fileOpen, err, result, src>>

\* the next line reaches line 158
Kept ==
    /\ ~UnpackFails(NextFields)
    /\ ~FilteredOut(NextGene, gene_filter)
    /\ ~IsUnknownGene(NextGene)

\* line 164: a match whose re-split has not five parts does not unpack
ExtractFail ==
    /\ HasLine
    /\ Kept
    /\ ~NextCoding.ok
    /\ lineno' = lineno + 1
    /\ Raise("ValueError", 164)
    /\ UNCHANGED <<annovar_file, gene_filter_arg, experimentalDesig, gene_filter, vars,
                   warns, src>>

\* line 172: int(genome_start) of a text that is no integer
StartFail ==
    /\ HasLine
    /\ Kept
    /\ NextCoding.ok
    /\ ~IsIntText(NextFields[5])
    /\ lineno' = lineno + 1
    /\ Raise("ValueError", 172)
    /\ UNCHANGED <<annovar_file, gene_filter_arg, experimentalDesig, gene_filter, vars,
                   warns, src>>

\* line 173: ty[0] of the empty tuple
TypeFail ==
    /\ HasLine
    /\ Kept
    /\ NextCoding.ok
    /\ IsIntText(NextFields[5])
    /\ FirstToken(NextTy).raises
    /\ lineno' = lineno + 1
    /\ Raise("IndexError", 173)
    /\ UNCHANGED <<annovar_file, gene_filter_arg, experimentalDesig, gene_filter, vars,
                   warns, src>>

\* lines 158-174: the Variant of the line is appended
Emit ==
    /\ HasLine
    /\ Kept
    /\ NextCoding.ok
    /\ IsIntText(NextFields[5])
    /\ ~FirstToken(NextTy).raises
    /\ vars' = AppendVar(vars, Variant(NextFields, NextTy, NextCoding.coding,
                                        experimentalDesig))
    /\ src' = AppendVar(src, lineno + 1)
    /\ lineno' = lineno + 1
    /\ UNCHANGED <<annovar_file, gene_filter_arg, experimentalDesig, pc, gene_filter,
                   fileOpen, warns, err, result>>

\* line 175, after the with block has closed f at the end of the file
Return ==
    /\ pc = "loop"
    /\ lineno = Len(annovar_file.lines)
    /\ fileOpen' = FALSE
    /\ result' = vars
    /\ pc' = "returned"
    /\ UNCHANGED <<annovar_file, gene_filter_arg, experimentalDesig, gene_filter, vars,
                   lineno, warns, err, src>>

Next ==
    \/ Enter
    \/ EnterMissing
    \/ ShortLine
    \/ FilterSkip
    \/ UnknownSkip
    \/ ExtractFail
    \/ StartFail
    \/ TypeFail
    \/ Emit
    \/ Return

Spec == Init /\ [][Next]_state

(***************************************************************************)
(* Vocabulary of the properties.  Line i is the i-th line of the file; the *)
(* lines 1..lineno have been taken by the loop.                            *)
(***************************************************************************)
LineFields(i) == FieldsTable[annovar_file.lines[i]]

LineMatches(i) == MatchesTable[annovar_file.lines[i]]

LineCoding(i) == CodingTable[annovar_file.lines[i]]

Taken == 1..lineno

Terminal == pc \in {"returned", "raised"}

\* the parse was aborted by line i
AbortedAt(i) == pc = "raised" /\ lineno = i /\ err.type # "IOError"

\* line i has a Variant in vars
Emitted(i) == \E k \in 1..Len(src) : src[k] = i

\* line i was passed over and the loop went on
Skipped(i) == ~Emitted(i) /\ ~AbortedAt(i)

HasNineFields(i) == Len(LineFields(i)) = 9

\* the text before the first colon of field 3, stripped and uppercased
PrimaryGeneOf(n) ==
    IF Len(FieldsTable[n]) < 3 THEN <<>>
    ELSE Upper(Strip(SplitOn(FieldsTable[n][3], ":")[1]))

PrimaryGenes == [n \in 1..Len(Lines) |-> PrimaryGeneOf(n)]

PrimaryGene(i) == PrimaryGenes[annovar_file.lines[i]]

\* the allow-list of the call: no list and the empty list both allow every gene
AllowList == IF gene_filter_arg = None THEN <<>> ELSE gene_filter_arg

Allowed(i) == Len(AllowList) = 0 \/ InList(PrimaryGene(i), AllowList)

\* line i has nine fields and passes the gene filter
PassesFilter(i) == HasNineFields(i) /\ Allowed(i) /\ PrimaryGene(i) # UnknownGene

\* the whitespace-separated tokens of the stripped, lowercased field 2
TokensOf(n) == IF Len(FieldsTable[n]) < 2 THEN <<>> ELSE SplitWs(FieldsTable[n][2])

TokenTuples == [n \in 1..Len(Lines) |-> TokensOf(n)]

Tokens(i) == TokenTuples[annovar_file.lines[i]]

WarnCount(i) == Cardinality({k \in 1..Len(warns) : warns[k] = i})

\* the classifier table of section 4.1
Section41(effect, kind) ==
    CASE effect = Synonymous /\ kind = Snv -> "SNP"
      [] effect = Nonsynonymous /\ kind = Snv -> "SNP"
      [] effect = Stoploss /\ kind = Snv -> "SNP"
      [] effect = Stopgain /\ kind = Snv -> "SNP"
      [] effect = Nonframeshift /\ kind = Deletion -> "DEL"
      [] effect = Frameshift /\ kind = Deletion -> "FSDEL"
      [] effect = Nonframeshift /\ kind = Insertion -> "INS"
      [] effect = Frameshift /\ kind = Insertion -> "FSINS"
      [] OTHER -> "UNKNOWN"

IsTablePair(t) == Len(t) = 2 /\ Section41(t[1], t[2]) # "UNKNOWN"

(***************************************************************************)
(* C1                                                                      *)
(***************************************************************************)
\* C1 as stated: the type of every emitted Variant is the table entry of the
\* first two tokens of the line's type text, whatever tokens follow them.
C1_TypeFromFirstTwoTokens ==
    \A k \in 1..Len(vars) :
        LET t == Tokens(src[k])
        IN  vars[k].type = IF Len(t) >= 2 THEN Section41(t[1], t[2]) ELSE "UNKNOWN"

\* C1 amended: the type of every emitted Variant is the table entry of the
\* whole token tuple of the line's type text: the entry of the pair when the
\* text has exactly two tokens, UNKNOWN for any other number of tokens.
C1_TypeFromWholeTuple ==
    \A k \in 1..Len(vars) :
        LET t == Tokens(src[k])
        IN  vars[k].type = IF Len(t) = 2 THEN Section41(t[1], t[2]) ELSE "UNKNOWN"

\* a Variant of a three-token text whose first two tokens are a table pair is
\* in vars with type UNKNOWN, next to a Variant of type SNP
C1_Witness ==
    \E k, j \in 1..Len(vars) :
        /\ Len(Tokens(src[k])) = 3
        /\ IsTablePair(Take(Tokens(src[k]), 2))
        /\ vars[k].type = "UNKNOWN"
        /\ vars[j].type = "SNP"

(***************************************************************************)
(* C2                                                                      *)
(***************************************************************************)
IsUnknownLine(i) == HasNineFields(i) /\ PrimaryGene(i) = UnknownGene

\* C2 as stated: every line taken whose primary gene is UNKNOWN is skipped and
\* has exactly one warning, whatever the gene filter.
C2_UnknownAlwaysWarns ==
    \A i \in Taken : IsUnknownLine(i) => Skipped(i) /\ WarnCount(i) = 1

\* C2 amended: every nine-field line taken whose primary gene is UNKNOWN is
\* skipped; it has exactly one warning when the gene filter is empty or contains
\* "UNKNOWN", and no warning when the filter is non-empty without "UNKNOWN".
C2_UnknownSkippedWarnsUnlessFiltered ==
    \A i \in Taken :
        IsUnknownLine(i) =>
            /\ Skipped(i)
            /\ WarnCount(i) =
                 IF Len(AllowList) = 0 \/ InList(UnknownGene, AllowList) THEN 1 ELSE 0

\* an UNKNOWN line was skipped with its warning under a filter that contains
\* "UNKNOWN", and the loop has gone on to the end of the file
C2_Witness ==
    /\ pc = "returned"
    /\ InList(UnknownGene, AllowList)
    /\ \E i \in Taken : IsUnknownLine(i) /\ Skipped(i) /\ WarnCount(i) = 1

(***************************************************************************)
(* C3                                                                      *)
(***************************************************************************)
\* well-formed: nine fields, integer genomic start, non-empty type text
WellFormed(i) ==
    HasNineFields(i) /\ IsIntText(LineFields(i)[5]) /\ Tokens(i) # <<>>

\* the number of Variants the caller receives for line i
Yield(i) ==
    IF pc = "returned" THEN Cardinality({k \in 1..Len(result) : src[k] = i}) ELSE 0

\* C3 as stated: when the parse of a file of well-formed lines has ended, a line
\* has yielded exactly one Variant if its gene is allowed and is not UNKNOWN,
\* and none otherwise.
C3_FilterAloneDecides ==
    (Terminal /\ \A i \in 1..Len(annovar_file.lines) : WellFormed(i)) =>
        \A i \in 1..Len(annovar_file.lines) :
            Yield(i) = IF Allowed(i) /\ PrimaryGene(i) # UnknownGene THEN 1 ELSE 0

(***************************************************************************)
(* C4                                                                      *)
(***************************************************************************)
\* the Variants of the lines i.. that pass the gene filter, in file order
RECURSIVE ExpectedFrom(_)
ExpectedFrom(i) ==
    IF i > Len(annovar_file.lines) THEN <<>>
    ELSE IF PassesFilter(i)
         THEN <<Variant(LineFields(i), Tokens(i), LineCoding(i).coding, experimentalDesig)>>
              \o ExpectedFrom(i + 1)
         ELSE ExpectedFrom(i + 1)

\* C4: on normal completion the returned list holds exactly one Variant per line
\* that was not skipped, in file order.
C4_ResultIsOrderedSubsequence ==
    pc = "returned" =>
        /\ result = ExpectedFrom(1)
        /\ \A k \in 1..Len(src) : \A j \in 1..Len(src) : k < j => src[k] < src[j]

\* two different Variants were returned
C4_Witness == pc = "returned" /\ Len(result) = 2 /\ result[1] # result[2]

(***************************************************************************)
(* C5                                                                      *)
(***************************************************************************)
IsShortLine(i) == Len(LineFields(i)) < 9

\* C5: a line of fewer than nine fields that the loop takes fails the parse at
\* that line with the unpack error, whether or not its gene would be filtered;
\* no line after it is taken, a file that holds such a line never completes
\* normally, and the caller of an aborted parse receives no Variant.
C5_ShortLineAbortsAll ==
    /\ \A i \in Taken :
           IsShortLine(i) =>
               AbortedAt(i) /\ err = [type |-> "ValueError", at |-> 141]
    /\ pc = "returned" => \A i \in 1..Len(annovar_file.lines) : ~IsShortLine(i)
    /\ pc = "raised" => result = <<>>

\* a short line whose gene the filter does not hold aborted the parse after a
\* Variant had been built from the line before it
C5_Witness ==
    /\ lineno = 2
    /\ AbortedAt(2)
    /\ Len(vars) = 1
    /\ IsShortLine(2)
    /\ Len(AllowList) # 0
    /\ ~InList(PrimaryGene(2), AllowList)
    /\ result = <<>>

(***************************************************************************)
(* C6                                                                      *)
(***************************************************************************)
\* C6 as stated, for the lines no other step of the loop body fails on (integer
\* genomic start, extraction completed): a line that passes the gene filter and
\* whose type tokens are no pair of the table does not abort the parse and has
\* a Variant of type UNKNOWN, whatever the number of tokens.
C6_TableMissNeverFails ==
    \A i \in Taken :
        ( /\ PassesFilter(i)
          /\ ~IsTablePair(Tokens(i))
          /\ IsIntText(LineFields(i)[5])
          /\ LineCoding(i).ok ) =>
            /\ ~AbortedAt(i)
            /\ \E k \in 1..Len(vars) : src[k] = i /\ vars[k].type = "UNKNOWN"

(***************************************************************************)
(* C7                                                                      *)
(***************************************************************************)
\* C7: the file is open exactly while the loop runs; it is closed in every
\* terminal state, after normal completion and after any failure.
C7_FileReleased ==
    /\ Terminal => ~fileOpen
    /\ fileOpen <=> pc = "loop"

\* the parse was aborted by a failed extraction after the file had been open,
\* and the file is closed
C7_Witness ==
    /\ pc = "raised"
    /\ err = [type |-> "ValueError", at |-> 164]
    /\ lineno = 2
    /\ ~fileOpen

(***************************************************************************)
(* C8                                                                      *)
(***************************************************************************)
\* the last match of line i whose uppercased transcript id is T
LastMatch(i, T) ==
    LET ms == LineMatches(i)
        at == {j \in 1..Len(ms) : Upper(ms[j][3]) = T}
    IN  ms[CHOOSE j \in at : \A h \in at : h <= j]

\* C8: the coding map of every emitted Variant has exactly the uppercased
\* transcript ids of the line's matches as keys; the entry under T carries T and
\* the captured positions minus one of the last match with id T.
C8_CodingIsLastWinsFold ==
    \A k \in 1..Len(vars) :
        LET c == vars[k].coding
            ms == LineMatches(src[k])
        IN  /\ DOMAIN c = {Upper(ms[j][3]) : j \in 1..Len(ms)}
            /\ \A T \in DOMAIN c :
                   /\ c[T].transcriptId = T
                   /\ c[T].transcriptPosition = IntOf(LastMatch(src[k], T)[4]) - 1
                   /\ c[T].proteinStartPosition = IntOf(LastMatch(src[k], T)[5]) - 1

\* a Variant of a line with two matches of transcript NM_2: the entry is the
\* one of the second match, c.a5b and p.c0d, with protein position -1
C8_Witness ==
    \E k \in 1..Len(vars) :
        /\ Len(LineMatches(src[k])) = 2
        /\ DOMAIN vars[k].coding = {<<"N", "M", "_", "2">>}
        /\ vars[k].coding[<<"N", "M", "_", "2">>].transcriptPosition = 4
        /\ vars[k].coding[<<"N", "M", "_", "2">>].proteinStartPosition = -1

(***************************************************************************)
(* C9                                                                      *)
(***************************************************************************)
\* C9 as stated: a line that passes the gene filter and whose type text has
\* exactly one token aborts the parse and has no Variant.
C9_OneTokenAborts ==
    \A i \in Taken :
        (PassesFilter(i) /\ Len(Tokens(i)) = 1) => AbortedAt(i) /\ ~Emitted(i)

\* C9 amended: a line that passes the gene filter and whose type text has no
\* token aborts the parse and has no Variant; the abort is the out-of-range
\* access of line 173 unless the extraction or the integer conversion of that
\* line failed first.  A text of exactly one token causes no such access.
C9_NoTokenAborts ==
    \A i \in Taken :
        /\ (PassesFilter(i) /\ Len(Tokens(i)) = 0) =>
               /\ AbortedAt(i)
               /\ ~Emitted(i)
               /\ (LineCoding(i).ok /\ IsIntText(LineFields(i)[5])) =>
                      err = [type |-> "IndexError", at |-> 173]
        /\ (PassesFilter(i) /\ Len(Tokens(i)) = 1) =>
               ~(AbortedAt(i) /\ err.type = "IndexError")

\* a line without type token aborted the parse with the IndexError after a
\* Variant had been built from a one-token line
C9_Witness ==
    /\ lineno = 2
    /\ AbortedAt(2)
    /\ err = [type |-> "IndexError", at |-> 173]
    /\ PassesFilter(2)
    /\ Len(Tokens(2)) = 0
    /\ Emitted(1)
    /\ Len(Tokens(1)) = 1

(***************************************************************************)
(* C10                                                                     *)
(***************************************************************************)
\* C10 as stated: every match of the pattern in the annotation text of a line
\* that reaches the extraction splits on ":" into exactly five parts, and the
\* extraction never aborts the parse.
C10_MatchHasFiveParts ==
    \A i \in Taken :
        PassesFilter(i) =>
            /\ \A j \in 1..Len(LineMatches(i)) :
                   Len(SplitOn(LineMatches(i)[j][1], ":")) = 5
            /\ ~(AbortedAt(i) /\ err.at = 164)

====
